---- MODULE Spec2Model ----
(***************************************************************************)
(* Model of demo.py: the reversible half adder (quantum_half_adder), its   *)
(* execution over a number of shots (run_counts), the single-pair demo     *)
(* (do_adder) and the four-pair verification run (do_test, main).          *)
(***************************************************************************)
EXTENDS Integers, Sequences, FiniteSets, TLC

\* ------------------------------------------------------------------ bounds
MaxShots == 2          \* largest shot count tried
NegShots == 1          \* shot counts go down to -NegShots (argparse takes any int)
MaxArg == 2            \* --a / --b are drawn from 0..MaxArg
MaxFaults == 1         \* non-ideal sampler responses per invocation
MaxRuns == 3           \* successive invocations of main

Bit == {0, 1}
ShotValues == (0 - NegShots)..MaxShots
ArgValues == 0..MaxArg

\* ------------------------------------------------------------ bitstrings
BitChar == <<"0", "1">>

\* Qiskit count ordering: classical bit 1 is the left character, bit 0 the
\* right one, so the key reads CARRY then SUM.
KeyOf(c1, c0) == BitChar[c1 + 1] \o BitChar[c0 + 1]

Keys == {KeyOf(x, y) : x \in Bit, y \in Bit}

StrBits(s) == CHOOSE p \in Bit \X Bit : KeyOf(p[1], p[2]) = s

\* Python's str ordering on two-character bitstrings
LexLess(s, t) ==
    LET p == StrBits(s)  q == StrBits(t)
    IN  \/ p[1] < q[1]
        \/ p[1] = q[1] /\ p[2] < q[2]

\* ------------------------------------------------------- circuit builder
Op(name, qubits, clbit) == [name |-> name, qubits |-> qubits, clbit |-> clbit]

NumQubits == 4
NumClbits == 2

quantum_half_adder_no_second_cx(a, b) ==
    [nq |-> NumQubits, nc |-> NumClbits,
     ops |-> (IF a = 1 THEN <<Op("x", <<0>>, -1)>> ELSE <<>>)
          \o (IF b = 1 THEN <<Op("x", <<1>>, -1)>> ELSE <<>>)
          \o << Op("cx", <<0, 2>>, -1),
                Op("ccx", <<0, 1, 3>>, -1),
                Op("measure", <<2>>, 0),
                Op("measure", <<3>>, 1) >>]

quantum_half_adder(a, b) ==
    [nq |-> NumQubits, nc |-> NumClbits,
     ops |-> (IF a = 1 THEN <<Op("x", <<0>>, -1)>> ELSE <<>>)
          \o (IF b = 1 THEN <<Op("x", <<1>>, -1)>> ELSE <<>>)
          \o << Op("cx", <<0, 2>>, -1),
                Op("cx", <<1, 2>>, -1),
                Op("ccx", <<0, 1, 3>>, -1),
                Op("measure", <<2>>, 0),
                Op("measure", <<3>>, 1) >>]

NoCircuit == [nq |-> 0, nc |-> 0, ops |-> <<>>]

\* ------------------------------------- ideal execution of one instruction
Flip(x) == 1 - x

ZeroState(qc) == [q |-> [i \in 0..(qc.nq - 1) |-> 0],
                  c |-> [i \in 0..(qc.nc - 1) |-> 0]]

ApplyOp(op, st) ==
    CASE op.name = "x" ->
           [st EXCEPT !.q[op.qubits[1]] = Flip(@)]
      [] op.name = "cx" ->
           IF st.q[op.qubits[1]] = 1
           THEN [st EXCEPT !.q[op.qubits[2]] = Flip(@)]
           ELSE st
      [] op.name = "ccx" ->
           IF st.q[op.qubits[1]] = 1 /\ st.q[op.qubits[2]] = 1
           THEN [st EXCEPT !.q[op.qubits[3]] = Flip(@)]
           ELSE st
      [] op.name = "measure" ->
           [st EXCEPT !.c[op.clbit] = st.q[op.qubits[1]]]

RECURSIVE RunOps(_, _, _)
RunOps(ops, i, st) ==
    IF i > Len(ops) THEN st ELSE RunOps(ops, i + 1, ApplyOp(ops[i], st))

Readout(st) == KeyOf(st.c[1], st.c[0])

ShotOutcome(qc) == Readout(RunOps(qc.ops, 1, ZeroState(qc)))

\* ------------------------------------------------ outcome-frequency table
\* A table is a Python dict: a sequence of (key, count) entries in insertion
\* order, keys distinct.
Entry(k, n) == [key |-> k, n |-> n]

HasKey(counts, k) == \E i \in 1..Len(counts) : counts[i].key = k

CountsGet(counts, k) ==
    LET i == CHOOSE j \in 1..Len(counts) : counts[j].key = k IN counts[i].n

TallyNoMerge(counts, k) == Append(counts, Entry(k, 1))

Tally(counts, k) ==
    IF HasKey(counts, k)
    THEN [i \in 1..Len(counts) |->
            IF counts[i].key = k THEN Entry(k, counts[i].n + 1) ELSE counts[i]]
    ELSE Append(counts, Entry(k, 1))

RECURSIVE IdealCounts(_, _)
IdealCounts(qc, n) ==
    IF n <= 0 THEN <<>> ELSE Tally(IdealCounts(qc, n - 1), ShotOutcome(qc))

RECURSIVE SumCounts(_)
SumCounts(counts) ==
    IF counts = <<>> THEN 0 ELSE Head(counts).n + SumCounts(Tail(counts))

DistinctKeys(counts) ==
    \A i, j \in 1..Len(counts) : counts[i].key = counts[j].key => i = j

\* every table of at most n keys whose counts sum to n, in every key order
TablesOf(n) ==
    { t \in UNION { [1..k -> [key : Keys, n : 1..n]] : k \in 1..n } :
        DistinctKeys(t) /\ SumCounts(t) = n }

AllTables == [n \in 1..MaxShots |-> TablesOf(n)]

\* max(counts, key=counts.get): the first key, in iteration order, whose
\* count is not exceeded by any other key
RECURSIVE PyMaxFrom(_, _, _)
PyMaxFrom(counts, i, best) ==
    IF i > Len(counts) THEN counts[best].key
    ELSE IF CountsGet(counts, counts[i].key) > CountsGet(counts, counts[best].key)
         THEN PyMaxFrom(counts, i + 1, i)
         ELSE PyMaxFrom(counts, i + 1, best)

PyMax(counts) == PyMaxFrom(counts, 2, 1)

\* ----------------------------------------------------------- sampler call
Raise == [kind |-> "raise", counts |-> <<>>]
Returned(t) == [kind |-> "counts", counts |-> t]

\* What execute(qc, backend, shots).result().get_counts() can hand back.
\* The backend is an external collaborator: for a positive shot count it
\* returns the ideal table, or (while the fault budget lasts) any other
\* table summing to shots, or raises; for shots <= 0 it is still called and
\* either raises or returns an empty table.
run_counts(qc, n, mayFault) ==
    IF n <= 0 THEN {Raise, Returned(<<>>)}
    ELSE {Returned(IdealCounts(qc, n))}
         \cup (IF mayFault
               THEN {Raise} \cup {Returned(t) : t \in AllTables[n]}
               ELSE {})

IsFault(out, qc, n) == n >= 1 /\ out # Returned(IdealCounts(qc, n))

\* ------------------------------------------------------------- do_test
expected == [p \in Bit \X Bit |->
               CASE p = <<0, 0>> -> "00"
                 [] p = <<0, 1>> -> "01"
                 [] p = <<1, 0>> -> "01"
                 [] p = <<1, 1>> -> "10"]

AListReversed == <<1, 0>>

AList == <<0, 1>>

BList == <<0, 1>>

PassedAlways(best, exp) == TRUE

Passed(best, exp) == best = exp

Record(a, b, best, exp, passed, counts) ==
    [a |-> a, b |-> b, best |-> best, exp |-> exp,
     passed |-> passed, counts |-> counts]

ReportPath == "test_report.txt"

NoFile == [exists |-> FALSE, shots |-> 0, rows |-> <<>>]
NoResult == [summary |-> <<>>, report |-> ""]
NoRun == [valid |-> FALSE, shots |-> 0, summary |-> <<>>, file |-> NoFile]

VARIABLES
    pc,        \* position of main / do_test
    shots,     \* args.shots of the current invocation
    ia, ib,    \* positions of the two loops of do_test in AList and BList
    summary,   \* do_test's local list of records
    calls,     \* sampler invocations made by the current invocation
    error,     \* exception that ended the current invocation, "" if none
    result,    \* value returned by do_test
    file,      \* content of test_report.txt
    stdout,    \* rows printed by main after do_test
    prev,      \* outcome of the previous completed verification run
    backend,   \* "ideal": the simulator; "any": an adapter that may also
               \* return other tables or raise
    faults,    \* non-ideal sampler responses so far
    runs,      \* invocations finished so far
    \* single-pair demo (do_adder) and the shot-by-shot execution of its circuit
    apc, arg_a, arg_b, ashots, qc, opi, st, done, counts, aerr

testVars == <<pc, shots, ia, ib, summary, calls, error, result, file, stdout,
              prev, backend, faults, runs>>
adderVars == <<apc, arg_a, arg_b, ashots, qc, opi, st, done, counts, aerr>>
vars == <<testVars, adderVars>>

Start ==
    /\ pc = "idle" /\ shots = 0 /\ ia = 1 /\ ib = 1
    /\ summary = <<>> /\ calls = <<>> /\ error = ""
    /\ result = NoResult /\ file = NoFile /\ stdout = <<>>
    /\ prev = NoRun /\ faults = 0 /\ runs = 0
    /\ apc = "idle" /\ arg_a = 0 /\ arg_b = 0 /\ ashots = 0
    /\ qc = NoCircuit /\ opi = 1 /\ st = ZeroState(NoCircuit)
    /\ done = 0 /\ counts = <<>> /\ aerr = ""

\* the sampler behind run_counts is any adapter
Init == Start /\ backend = "any"

\* the sampler behind run_counts is the noise-free simulator
InitIdeal == Start /\ backend = "ideal"

\* ------------------------------------------------ verification run: main
NewSummaryStale == summary

NewSummary == <<>>

\* main() reaches do_test(args.shots, out_dir); do_test starts its loops
do_test_begin ==
    /\ pc = "idle" /\ runs < MaxRuns
    /\ \E n \in ShotValues : shots' = n
    /\ pc' = "loop"
    /\ summary' = NewSummary
    /\ ia' = 1 /\ ib' = 1
    /\ calls' = <<>> /\ error' = "" /\ result' = NoResult /\ stdout' = <<>>
    /\ UNCHANGED <<file, prev, backend, faults, runs, adderVars>>

\* one pass through the body of the nested loops of do_test
do_test_pair ==
    /\ pc = "loop"
    /\ LET a == AList[ia]
           b == BList[ib]
           c == quantum_half_adder(a, b)
       IN \E out \in run_counts(c, shots, backend = "any" /\ faults < MaxFaults) :
            /\ calls' = Append(calls, [a |-> a, b |-> b, shots |-> shots, out |-> out])
            /\ faults' = IF IsFault(out, c, shots) THEN faults + 1 ELSE faults
            /\ IF out.kind = "raise"
               THEN /\ pc' = "aborted" /\ error' = "SubstrateError"
                    /\ UNCHANGED <<summary, ia, ib>>
               ELSE IF out.counts = <<>>
               THEN \* max() of an empty dict
                    /\ pc' = "aborted" /\ error' = "ValueError"
                    /\ UNCHANGED <<summary, ia, ib>>
               ELSE LET best == PyMax(out.counts)
                        exp == expected[<<a, b>>]
                        passed == Passed(best, exp)
                    IN /\ summary' = Append(summary,
                                       Record(a, b, best, exp, passed, out.counts))
                       /\ error' = error
                       /\ IF ib < Len(BList)
                          THEN ib' = ib + 1 /\ ia' = ia /\ pc' = "loop"
                          ELSE IF ia < Len(AList)
                          THEN ib' = 1 /\ ia' = ia + 1 /\ pc' = "loop"
                          ELSE ib' = ib /\ ia' = ia /\ pc' = "report"
    /\ UNCHANGED <<shots, result, file, stdout, prev, backend, runs, adderVars>>

\* the report file is written and do_test returns (summary, report)
do_test_report ==
    /\ pc = "report"
    /\ file' = [exists |-> TRUE, shots |-> shots, rows |-> summary]
    /\ result' = [summary |-> summary, report |-> ReportPath]
    /\ pc' = "done"
    /\ UNCHANGED <<shots, ia, ib, summary, calls, error, stdout, prev, backend,
                   faults, runs, adderVars>>

\* main prints one line per record of the returned summary
main_print ==
    /\ pc = "done"
    /\ stdout' = result.summary
    /\ pc' = "printed"
    /\ UNCHANGED <<shots, ia, ib, summary, calls, error, result, file, prev,
                   backend, faults, runs, adderVars>>

\* the process ends (normally or by the exception); the next invocation
\* starts from fresh locals, the report file stays on disk
main_exit ==
    /\ pc \in {"printed", "aborted"}
    /\ prev' = IF pc = "printed"
               THEN [valid |-> TRUE, shots |-> shots,
                     summary |-> result.summary, file |-> file]
               ELSE prev
    /\ runs' = runs + 1
    /\ pc' = "idle"
    /\ UNCHANGED <<shots, ia, ib, summary, calls, error, result, file, stdout,
                   backend, faults, adderVars>>

\* one invocation of main, with any sampler
Next ==
    \/ do_test_begin
    \/ do_test_pair
    \/ do_test_report
    \/ main_print

Spec == Init /\ [][Next]_vars

\* successive invocations of main, with the noise-free simulator
NextRepeat ==
    \/ do_test_begin
    \/ do_test_pair
    \/ do_test_report
    \/ main_print
    \/ main_exit

SpecRepeat == InitIdeal /\ [][NextRepeat]_vars

\* ------------------------------------------ single-pair demo: do_adder
\* do_adder builds the circuit and hands it to run_counts
do_adder ==
    /\ apc = "idle"
    /\ \E a \in ArgValues, b \in ArgValues, n \in ShotValues :
         /\ arg_a' = a /\ arg_b' = b /\ ashots' = n
         /\ qc' = quantum_half_adder(a, b)
         /\ st' = ZeroState(quantum_half_adder(a, b))
    /\ opi' = 1 /\ done' = 0 /\ counts' = <<>> /\ aerr' = ""
    /\ apc' = "exec"
    /\ UNCHANGED testVars

\* the backend is called with shots <= 0: it raises, or returns no counts
exec_reject ==
    /\ apc = "exec" /\ ashots <= 0
    /\ \E out \in run_counts(qc, ashots, FALSE) :
         IF out.kind = "raise"
         THEN apc' = "raised" /\ aerr' = "SubstrateError" /\ counts' = counts
         ELSE apc' = "returned" /\ aerr' = aerr /\ counts' = out.counts
    /\ UNCHANGED <<arg_a, arg_b, ashots, qc, opi, st, done, testVars>>

\* the backend applies the next instruction of the current shot
exec_op ==
    /\ apc = "exec" /\ ashots >= 1
    /\ opi <= Len(qc.ops)
    /\ st' = ApplyOp(qc.ops[opi], st)
    /\ opi' = opi + 1
    /\ UNCHANGED <<apc, arg_a, arg_b, ashots, qc, done, counts, aerr, testVars>>

\* the shot is over: its readout is tallied; after the last shot the table
\* is returned
exec_shot_end ==
    /\ apc = "exec" /\ ashots >= 1
    /\ opi > Len(qc.ops)
    /\ counts' = Tally(counts, Readout(st))
    /\ done' = done + 1
    /\ IF done + 1 = ashots
       THEN apc' = "returned" /\ opi' = opi /\ st' = st
       ELSE apc' = "exec" /\ opi' = 1 /\ st' = ZeroState(qc)
    /\ UNCHANGED <<arg_a, arg_b, ashots, qc, aerr, testVars>>

\* do_adder returns (or the exception leaves main); locals are dropped
adder_exit ==
    /\ apc \in {"returned", "raised"}
    /\ apc' = "idle" /\ arg_a' = 0 /\ arg_b' = 0 /\ ashots' = 0
    /\ qc' = NoCircuit /\ opi' = 1 /\ st' = ZeroState(NoCircuit)
    /\ done' = 0 /\ counts' = <<>> /\ aerr' = ""
    /\ UNCHANGED testVars

NextAdder ==
    \/ do_adder
    \/ exec_reject
    \/ exec_op
    \/ exec_shot_end
    \/ adder_exit

SpecAdder == InitIdeal /\ [][NextAdder]_vars


\* ================================================================ claims
Xor(x, y) == (x + y) % 2
And(x, y) == x * y

PairOrder == << <<0, 0>>, <<0, 1>>, <<1, 0>>, <<1, 1>> >>

IsMaxKey(t, k) == HasKey(t, k) /\ \A j \in 1..Len(t) : t[j].n <= CountsGet(t, k)

AllPassed(s) == \A i \in 1..Len(s) : s[i].passed

NoiseFree(s, n) ==
    \A i \in 1..Len(s) :
        s[i].counts = IdealCounts(quantum_half_adder(s[i].a, s[i].b), n)

ShotFinished == apc \in {"exec", "returned"} /\ ashots >= 1 /\ opi > Len(qc.ops)

\* C1: for every (A,B) in {0,1}x{0,1}, once the instructions of the circuit
\* built by quantum_half_adder(A,B) have all been applied to the all-zero
\* state, wire SUM (q2) holds A XOR B, wire CARRY (q3) holds A AND B, and the
\* readout (CARRY then SUM) is the entry of do_test's expected table:
\* 00 -> "00", 01 -> "01", 10 -> "01", 11 -> "10".
C1_TruthTable ==
    (ShotFinished /\ arg_a \in Bit /\ arg_b \in Bit) =>
        /\ st.q[2] = Xor(arg_a, arg_b)
        /\ st.q[3] = And(arg_a, arg_b)
        /\ st.c[0] = st.q[2] /\ st.c[1] = st.q[3]
        /\ Readout(st) = expected[<<arg_a, arg_b>>]
        /\ Readout(st) = CASE arg_a = 0 /\ arg_b = 0 -> "00"
                           [] arg_a = 1 /\ arg_b = 1 -> "10"
                           [] OTHER -> "01"

C1_Witness ==
    /\ apc = "returned" /\ arg_a = 1 /\ arg_b = 1
    /\ st.q[2] = 0 /\ st.q[3] = 1 /\ Readout(st) = "10"

\* C2: the majority outcome stored in a record is a key of maximal count in
\* the record's table, and it is lexicographically below every other key
\* tied for that count, whatever the order of the table's keys.
C2_LexSmallestOnTie ==
    \A i \in 1..Len(summary) :
        LET r == summary[i] IN
        /\ IsMaxKey(r.counts, r.best)
        /\ \A j \in 1..Len(r.counts) :
              (r.counts[j].n = CountsGet(r.counts, r.best)
                 /\ r.counts[j].key # r.best)
              => LexLess(r.best, r.counts[j].key)

\* C3: a call of the circuit builder with a bit outside {0,1} ends with an
\* InvalidInput error and no circuit.
C3_InvalidInputRejected ==
    (apc # "idle" /\ (arg_a \notin Bit \/ arg_b \notin Bit)) =>
        (aerr = "InvalidInput" /\ qc = NoCircuit)

\* C4: in a verification run with a shot count N <= 0 the backend is never
\* called by run_counts, for any pair, and no record or report is produced.
C4_NoSamplingOnBadShots ==
    (pc # "idle" /\ shots <= 0) =>
        (calls = <<>> /\ summary = <<>> /\ result = NoResult /\ ~file.exists)

\* C5: when the sampler raises during a verification run with a valid shot
\* count, the run is not aborted: it ends with a four-row report whose
\* aggregate is false.
C5_FailureRecordedPerRow ==
    (shots >= 1 /\ \E i \in 1..Len(calls) : calls[i].out.kind = "raise") =>
        /\ pc # "aborted"
        /\ pc \in {"done", "printed"} =>
              (Len(result.summary) = 4 /\ ~AllPassed(result.summary))

\* C6: the sampler is called for the pairs in the order (0,0),(0,1),(1,0),
\* (1,1); records are appended in that order; a run whose calls all returned
\* a table is never cut short, whatever the verdicts; and the finished report
\* has exactly four records in that order.
C6_FixedOrderNoShortCircuit ==
    /\ Len(calls) <= 4
    /\ \A i \in 1..Len(calls) : <<calls[i].a, calls[i].b>> = PairOrder[i]
    /\ \A i \in 1..Len(summary) : <<summary[i].a, summary[i].b>> = PairOrder[i]
    /\ pc = "aborted" =>
          (calls # <<>> /\ (calls[Len(calls)].out.kind = "raise"
                            \/ calls[Len(calls)].out.counts = <<>>))
    /\ pc \in {"report", "done", "printed"} => Len(summary) = 4
    /\ pc \in {"done", "printed"} =>
          /\ Len(result.summary) = 4
          /\ \A i \in 1..4 :
                <<result.summary[i].a, result.summary[i].b>> = PairOrder[i]
          /\ file.rows = result.summary

C6_Witness ==
    /\ pc = "done" /\ Len(result.summary) = 4
    /\ ~result.summary[1].passed
    /\ result.summary[4].passed

\* C7: the value returned by a verification run carries an aggregate success
\* boolean, true exactly when all four records passed.
C7_AggregateSuccess ==
    pc \in {"done", "printed"} =>
        /\ "success" \in DOMAIN result
        /\ result.success = AllPassed(result.summary)

\* C8: in every record, expected is the ExpectedTable entry of the record's
\* own (A,B), counts is the table returned by the sampler call made for that
\* (A,B), and the pass flag is true exactly when best equals expected.
C8_RecordFields ==
    \A i \in 1..Len(summary) :
        LET r == summary[i] IN
        /\ i <= Len(calls)
        /\ calls[i].a = r.a /\ calls[i].b = r.b
        /\ calls[i].out.kind = "counts"
        /\ r.counts = calls[i].out.counts
        /\ r.exp = expected[<<r.a, r.b>>]
        /\ r.passed = (r.best = r.exp)
        /\ (r.best # r.exp) => ~r.passed

C8_Witness ==
    /\ Len(summary) >= 2
    /\ summary[2].a = 0 /\ summary[2].b = 1
    /\ summary[2].counts = <<Entry("10", 2)>>
    /\ summary[2].best = "10" /\ summary[2].exp = "01"
    /\ ~summary[2].passed

\* C9: under ideal execution, for every (A,B) in {0,1}x{0,1} and every
\* N >= 1, all trials give the same bitstring: the table never has more than
\* one key, its counts sum to the number of shots done, and the returned
\* table has exactly one key, with count N, which is the majority outcome.
C9_SingleKeyTable ==
    (apc \in {"exec", "returned"} /\ ashots >= 1
        /\ arg_a \in Bit /\ arg_b \in Bit) =>
        /\ Len(counts) <= 1
        /\ SumCounts(counts) = done
        /\ apc = "returned" =>
              /\ done = ashots
              /\ Len(counts) = 1
              /\ counts[1].n = ashots
              /\ counts[1].key \in Keys
              /\ PyMax(counts) = counts[1].key

C9_Witness ==
    /\ apc = "returned" /\ ashots = 2 /\ arg_a = 1 /\ arg_b = 0
    /\ counts = <<Entry("01", 2)>>

\* C10: a verification run that follows a completed one with the same shot
\* count, both served by a noise-free sampler, returns the same records and
\* writes the same report as the earlier run.
C10_Idempotent ==
    (pc \in {"done", "printed"} /\ prev.valid /\ prev.shots = shots
        /\ NoiseFree(prev.summary, prev.shots)
        /\ NoiseFree(result.summary, shots)) =>
        /\ result.summary = prev.summary
        /\ file = prev.file

C10_Witness ==
    /\ pc = "printed" /\ prev.valid /\ prev.shots = shots /\ shots = 2
    /\ runs = 1
    /\ NoiseFree(prev.summary, prev.shots)
    /\ NoiseFree(result.summary, shots)
    /\ Len(stdout) = 4

====
